---- MODULE Spec2Model ----
(***************************************************************************)
(* Model of the CIP arbitrage scripts: cip.py (pricing), optimize.py (the  *)
(* parameter sweep around run_backtest), backtest.py (the single backtest) *)
(* and app.py (the dashboard, one refresh per script run, and its path     *)
(* simulator simulate_pnl).  Spec runs one of the scripts; SpecSession is  *)
(* the dashboard alone over sessions long enough to fill its histories.    *)
(*                                                                         *)
(* Floats are modelled as exact rationals <<n, d>> in lowest terms with    *)
(* d > 0, plus NaN == <<0, 0>>; comparisons with NaN are false and NaN     *)
(* propagates through arithmetic, as in IEEE/pandas.  Rounding error of    *)
(* binary floating point is not modelled.                                  *)
(***************************************************************************)
EXTENDS Integers, Sequences, FiniteSets, TLC

VARIABLES
    prog,          \* which script this run executes
    spot,          \* optimize/backtest: spot history, a sequence by date
    swap_pts,      \* optimize/backtest: swap-points history, date -> value
    tenor_days,    \* optimize/backtest: tenor handed to run_backtest
    r_for,         \* optimize/backtest: foreign rate handed to run_backtest
    pc,            \* optimize/backtest: "run", "done" or "crashed"
    idx,           \* optimize: position in the parameter grid
    results,       \* optimize: the result rows collected so far
    report,        \* backtest.py: the printed metrics
    settings,      \* app.py: the sidebar values of the session
    feed,          \* app.py: the market quotes the broker serves, cyclically
    tick,          \* app.py: number of refreshes so far
    history,       \* app.py: st.session_state.history
    fwd_history,   \* app.py: st.session_state.fwd_history
    data_rows,     \* app.py: the rows of the last refresh
    cip_in,        \* cip.py: arguments of the last call
    cip_out,       \* cip.py: outcome of the last call
    cip_main,      \* cip.py: what the example of the __main__ block computed and printed
    sim_in,        \* app.py: arguments of the simulate_pnl calls of the run
    sim_runs,      \* app.py: the matrices simulate_pnl returned, in call order
    df,            \* optimize/backtest: the data frame of the last backtest
    trades         \* optimize/backtest: its rows kept by dropna

vars == <<prog, spot, swap_pts, tenor_days, r_for, pc, idx, results, report,
          settings, feed, tick, history, fwd_history, data_rows, cip_in, cip_out,
          cip_main, sim_in, sim_runs, df, trades>>

----------------------------------------------------------------------------
(* Bounds of the model *)

MaxLen == 3          \* longest spot history
MaxTenor == 2        \* largest tenor of a backtest, in rows
MaxRefresh == 3      \* dashboard refreshes per session
MaxSession == 52     \* dashboard refreshes of a long session

----------------------------------------------------------------------------
(* Floats *)

NaN == <<0, 0>>

IsNaN(x) == x[2] = 0

Abs(n) == IF n < 0 THEN -n ELSE n

RECURSIVE GCD(_, _)
GCD(a, b) == IF b = 0 THEN a ELSE GCD(b, a % b)

Norm(n, d) ==
    IF d = 0 THEN NaN
    ELSE LET g == GCD(Abs(n), Abs(d))
             s == IF d < 0 THEN -1 ELSE 1
         IN  <<(s * n) \div g, (s * d) \div g>>

R(n) == <<n, 1>>

Q(n, d) == Norm(n, d)

FNeg(a) == IF IsNaN(a) THEN NaN ELSE <<-a[1], a[2]>>

\* both operands in lowest terms: the sum needs reducing by a divisor of g only
FAdd(a, b) ==
    IF IsNaN(a) \/ IsNaN(b) THEN NaN
    ELSE LET g == GCD(a[2], b[2])
             t == a[1] * (b[2] \div g) + b[1] * (a[2] \div g)
             h == IF g = 1 THEN 1 ELSE GCD(g, Abs(t) % g)
         IN  <<t \div h, (a[2] \div g) * (b[2] \div h)>>

FSub(a, b) == FAdd(a, FNeg(b))

\* both operands in lowest terms: cross-reduced, the product is in lowest terms
FMul(a, b) ==
    IF IsNaN(a) \/ IsNaN(b) THEN NaN
    ELSE LET g1 == IF b[2] = 1 THEN 1 ELSE GCD(b[2], Abs(a[1]) % b[2])
             g2 == IF a[2] = 1 THEN 1 ELSE GCD(a[2], Abs(b[1]) % a[2])
         IN  <<(a[1] \div g1) * (b[1] \div g2), (a[2] \div g2) * (b[2] \div g1)>>

\* numpy division; a zero divisor is reached only as 0/0 or NaN here
FDiv(a, b) ==
    IF IsNaN(a) \/ IsNaN(b) \/ b[1] = 0 THEN NaN
    ELSE FMul(a, IF b[1] < 0 THEN <<-b[2], -b[1]>> ELSE <<b[2], b[1]>>)

\* n1/d1 < n2/d2 for d1, d2 > 0, by integer parts and then the reciprocals of
\* the fractional parts, so that no product is formed
RECURSIVE Less(_, _, _, _)
Less(n1, d1, n2, d2) ==
    LET q1 == n1 \div d1
        q2 == n2 \div d2
        r1 == n1 - q1 * d1
        r2 == n2 - q2 * d2
    IN  IF q1 # q2 THEN q1 < q2
        ELSE IF r2 = 0 THEN FALSE
        ELSE IF r1 = 0 THEN TRUE
        ELSE Less(d2, r2, d1, r1)

FLt(a, b) == ~IsNaN(a) /\ ~IsNaN(b) /\ Less(a[1], a[2], b[1], b[2])

FGt(a, b) == FLt(b, a)

FLe(a, b) == ~IsNaN(a) /\ ~IsNaN(b) /\ ~FLt(b, a)

FMax(a, b) == IF FLt(a, b) THEN b ELSE a

Zero == R(0)

One == R(1)

----------------------------------------------------------------------------
(* cip.py *)

\* the divisor of theoretical_forward: 1 + r_for * tenor_days / 360
ForwardDivisor(rfor, tenor) == FAdd(One, FDiv(FMul(rfor, R(tenor)), R(360)))

\* spot * (1 + r_dom * tenor_days / 360) / (1 + r_for * tenor_days / 360) on
\* Python floats: a zero divisor raises ZeroDivisionError
theoretical_forward(s, rdom, rfor, tenor) ==
    LET den == ForwardDivisor(rfor, tenor)
        num == FMul(s, FAdd(One, FDiv(FMul(rdom, R(tenor)), R(360))))
    IN  IF den = Zero
        THEN [err |-> "ZeroDivisionError", val |-> NaN]
        ELSE [err |-> "none", val |-> FDiv(num, den)]

\* the deviation taken relative to the observed forward
deviation_of_observed(obs, theo) ==
    IF obs = Zero
    THEN [err |-> "ZeroDivisionError", val |-> NaN]
    ELSE [err |-> "none", val |-> FMul(FDiv(FSub(obs, theo), obs), R(10000))]

\* (obs_fwd - theo_fwd) / theo_fwd * 10_000 on Python floats
deviation_bps(obs, theo) ==
    IF theo = Zero
    THEN [err |-> "ZeroDivisionError", val |-> NaN]
    ELSE [err |-> "none", val |-> FMul(FDiv(FSub(obs, theo), theo), R(10000))]

----------------------------------------------------------------------------
(* optimize.py: run_backtest *)

Notional == 1000000

RDom == Q(1, 40)         \* r_dom = 0.025

RForDefault == Q(1, 200) \* r_for = 0.005

RECURSIVE SumSeq(_)
SumSeq(s) == IF s = <<>> THEN Zero ELSE FAdd(s[1], SumSeq(Tail(s)))

RECURSIVE MaxSeq(_)
MaxSeq(s) == IF Len(s) = 1 THEN s[1] ELSE FMax(s[1], MaxSeq(Tail(s)))

\* Dates are day numbers.  The i-th date of the spot index is day 2 * i, so
\* that an odd day lies between two dates of the index (or before the first)
\* and is itself absent from it: a day with a swap rate and no candle.
DateOf(i) == 2 * i

\* the position in the spot index of one of its dates
IndexOf(date) == date \div 2

\* swap_pts.reindex(df.index): the dates of the spot index, NaN where the
\* swap series has no entry; its entries at other dates are dropped
Reindex(sw, n) ==
    [i \in 1..n |-> IF DateOf(i) \in DOMAIN sw THEN sw[DateOf(i)] ELSE NaN]

\* .fillna(method="ffill"): a NaN takes the last earlier value, if any
Ffill(s) ==
    LET f[i \in 0..Len(s)] ==
            IF i = 0 THEN NaN ELSE IF IsNaN(s[i]) THEN f[i - 1] ELSE s[i]
    IN  [i \in 1..Len(s) |-> f[i]]

\* the signal with the comparisons made inclusive
SignalOfInclusive(dev, th) ==
    LET s1 == IF ~FLt(dev, th) /\ ~IsNaN(dev) THEN -1 ELSE 0
    IN  IF ~FGt(dev, FNeg(th)) /\ ~IsNaN(dev) THEN 1 ELSE s1

\* df["signal"] = 0; then -1 where dev > threshold; then +1 where dev < -threshold
SignalOf(dev, th) ==
    LET s1 == IF FGt(dev, th) THEN -1 ELSE 0
    IN  IF FLt(dev, FNeg(th)) THEN 1 ELSE s1

\* the shift with the rows past the end given the last spot of the series
ExitSpotClamped(sp, i, tenor) == IF i + tenor <= Len(sp) THEN sp[i + tenor] ELSE sp[Len(sp)]

\* df["spot"].shift(-tenor_days): the spot tenor_days rows later, NaN past the end
ExitSpot(sp, i, tenor) == IF i + tenor <= Len(sp) THEN sp[i + tenor] ELSE NaN

\* df["raw_pnl"] = signal * (exit_spot - obs_fwd) * notional
RawPnl(sig, exit, obs, notional) == FMul(FMul(R(sig), FSub(exit, obs)), R(notional))

\* the cost charged on every row, traded or not
NetPnlAlwaysCharged(raw, sig, cost) == FSub(raw, cost)

\* df["pnl"] = raw_pnl - signal.abs() * cost
NetPnl(raw, sig, cost) == FSub(raw, FMul(R(Abs(sig)), cost))

\* the stop-loss left out
StopLossMissing(pnl, stop_amt) == pnl

\* df.loc[df["pnl"] < -stop_amt, "pnl"] = -stop_amt
StopLoss(pnl, stop_amt) == IF FLt(pnl, FNeg(stop_amt)) THEN FNeg(stop_amt) ELSE pnl

\* cost = spread_bps / 10_000 * notional; stop_amt likewise
BpsAmount(bps, notional) == FMul(FDiv(bps, R(10000)), R(notional))

\* the columns of df, row by row (lines 66-79); theo holds the outcomes of
\* theoretical_forward, none of which is an error here
Frame(sp, sw, th, sl, spr, tenor, rdom, rfor, notional) ==
    LET n == Len(sp)
        swf == Ffill(Reindex(sw, n))
        cost == BpsAmount(spr, notional)
        stop_amt == BpsAmount(sl, notional)
        row(i) ==
            LET theo == theoretical_forward(sp[i], rdom, rfor, tenor).val
                obs == FAdd(sp[i], FDiv(FMul(swf[i], R(tenor)), R(360)))
                dev == FMul(FDiv(FSub(obs, theo), theo), R(10000))
                sig == SignalOf(dev, th)
                exit == ExitSpot(sp, i, tenor)
                raw == RawPnl(sig, exit, obs, notional)
            IN  [date |-> DateOf(i), spot |-> sp[i], swap_pts |-> swf[i], theo_fwd |-> theo,
                 obs_fwd |-> obs, dev_bps |-> dev, signal |-> sig, exit_spot |-> exit,
                 raw_pnl |-> raw, pnl |-> StopLoss(NetPnl(raw, sig, cost), stop_amt)]
    IN  [i \in 1..n |-> row(i)]

\* df.dropna(subset=["pnl"])
DropNa(frame) == SelectSeq(frame, LAMBDA r : ~IsNaN(r.pnl))

PnlOf(tr) == [i \in 1..Len(tr) |-> tr[i].pnl]

\* (trades["signal"] != 0).sum()
NumTrades(tr) == Cardinality({i \in 1..Len(tr) : tr[i].signal # 0})

\* trades["pnl"].gt(0).mean() * 100 if num_trades else 0
WinRate(tr) ==
    IF NumTrades(tr) # 0
    THEN FMul(Q(Cardinality({i \in 1..Len(tr) : FGt(tr[i].pnl, Zero)}), Len(tr)), R(100))
    ELSE Zero

\* trades["pnl"].mean() if num_trades else 0
AvgPnl(tr) ==
    IF NumTrades(tr) # 0 THEN FDiv(SumSeq(PnlOf(tr)), R(Len(tr))) ELSE Zero

\* trades["pnl"].cumsum()
CumSum(s) ==
    LET f[i \in 0..Len(s)] == IF i = 0 THEN Zero ELSE FAdd(f[i - 1], s[i])
    IN  [i \in 1..Len(s) |-> f[i]]

\* equity.cummax()
CumMax(s) ==
    LET f[i \in 1..Len(s)] == IF i = 1 THEN s[1] ELSE FMax(f[i - 1], s[i])
    IN  [i \in 1..Len(s) |-> f[i]]

\* the drawdown measured from a peak that starts at the opening equity 0
MaxDrawdownFromZero(equity) ==
    IF equity = <<>> THEN Zero
    ELSE LET peak == CumMax(equity)
         IN  MaxSeq([i \in 1..Len(equity) |-> FSub(FMax(Zero, peak[i]), equity[i])])

\* (equity.cummax() - equity).max() if not equity.empty else 0
MaxDrawdown(equity) ==
    IF equity = <<>> THEN Zero
    ELSE LET peak == CumMax(equity)
         IN  MaxSeq([i \in 1..Len(equity) |-> FSub(peak[i], equity[i])])

\* lines 80-91
Metrics(tr) ==
    [total_pnl |-> SumSeq(PnlOf(tr)),
     num_trades |-> NumTrades(tr),
     win_rate |-> WinRate(tr),
     avg_pnl |-> AvgPnl(tr),
     max_drawdown |-> MaxDrawdown(CumSum(PnlOf(tr)))]

\* Series.apply calls theoretical_forward once per row with Python floats:
\* with at least one row and a zero divisor the call raises
BacktestRaises(sp, rfor, tenor) == Len(sp) > 0 /\ ForwardDivisor(rfor, tenor) = Zero

----------------------------------------------------------------------------
(* optimize.py: the sweep *)

\* the lists of the sweep: 0.5 is the script's first threshold; 8000/14401 is
\* the threshold a deviation meets exactly at tenor 1 (from below with swap
\* points 0, from above with spot 1 + 1/72000 and swap points 0.04); 0.5552
\* separates the deviations of the two spot levels at swap points 0.04
thresholds == <<Q(1, 2), Q(8000, 14401), Q(347, 625)>>

stop_losses == <<Zero, R(2)>>

spreads == <<Q(1, 10)>>

\* itertools.product(thresholds, stop_losses, spreads), in its order
Grid ==
    LET nt == Len(thresholds)
        ns == Len(stop_losses)
        np == Len(spreads)
    IN  [k \in 1..(nt * ns * np) |->
            [th |-> thresholds[((k - 1) \div (ns * np)) + 1],
             sl |-> stop_losses[(((k - 1) \div np) % ns) + 1],
             sp |-> spreads[((k - 1) % np) + 1]]]

\* two spot levels 5 bps apart, the lower one chosen so that its theoretical
\* forward is 1 + tenor/14400
SpotVals(tenor) ==
    {Q(72000 + tenor, 72000), FMul(Q(72000 + tenor, 72000), Q(2000, 1999))}

SwapVals == {Zero, Q(1, 25)}

\* the default foreign rate, and the rate at which the divisor of
\* theoretical_forward vanishes for the tenor
RForVals(tenor) == {RForDefault, Q(-360, tenor)}

SpotSeries(tenor) == UNION {[1..n -> SpotVals(tenor)] : n \in 0..MaxLen}

\* the days the swap series may have an entry for: the dates of the spot
\* index and the day between its first two dates
SwapDates(n) == {DateOf(i) : i \in 1..n} \cup {d \in {DateOf(1) + 1} : n >= 2}

SwapSeries(n) == UNION {[D -> SwapVals] : D \in SUBSET SwapDates(n)}

NoFrame == <<>>

NoReport == [total_pnl |-> Zero, num_trades |-> 0, win_rate |-> Zero,
             avg_pnl |-> Zero, max_drawdown |-> Zero]

\* one iteration of the loop of lines 103-108 in which run_backtest returns
SweepStep ==
    /\ prog = "optimize"
    /\ pc = "run"
    /\ idx <= Len(Grid)
    /\ ~BacktestRaises(spot, r_for, tenor_days)
    /\ LET g == Grid[idx]
           frame == Frame(spot, swap_pts, g.th, g.sl, g.sp, tenor_days, RDom, r_for, Notional)
           tr == DropNa(frame)
           m == Metrics(tr)
       IN  /\ df' = frame
           /\ trades' = tr
           /\ results' = Append(results,
                  [threshold_bps |-> g.th, stop_loss_bps |-> g.sl, spread_bps |-> g.sp,
                   total_pnl |-> m.total_pnl, num_trades |-> m.num_trades,
                   win_rate |-> m.win_rate, avg_pnl |-> m.avg_pnl,
                   max_drawdown |-> m.max_drawdown])
    /\ idx' = idx + 1
    /\ UNCHANGED <<prog, spot, swap_pts, tenor_days, r_for, pc, report, settings, feed,
                   tick, history, fwd_history, data_rows, cip_in, cip_out,
                   cip_main, sim_in, sim_runs>>

\* one iteration in which run_backtest raises: nothing catches the exception,
\* the script ends with a traceback and writes no file
SweepRaise ==
    /\ prog = "optimize"
    /\ pc = "run"
    /\ idx <= Len(Grid)
    /\ BacktestRaises(spot, r_for, tenor_days)
    /\ pc' = "crashed"
    /\ UNCHANGED <<prog, spot, swap_pts, tenor_days, r_for, idx, results, report, settings,
                   feed, tick, history, fwd_history, data_rows, cip_in, cip_out,
                   cip_main, sim_in, sim_runs, df, trades>>

\* lines 109-113: the loop is over; the rows are written and printed
SweepFinish ==
    /\ prog = "optimize"
    /\ pc = "run"
    /\ idx > Len(Grid)
    /\ pc' = "done"
    /\ UNCHANGED <<prog, spot, swap_pts, tenor_days, r_for, idx, results, report, settings,
                   feed, tick, history, fwd_history, data_rows, cip_in, cip_out,
                   cip_main, sim_in, sim_runs, df, trades>>

----------------------------------------------------------------------------
(* backtest.py *)

BtSpread == Q(1, 2)      \* spread_bps = 0.5

BtStopLoss == R(5)       \* stop_loss_bps = 5.0

\* lines 91-110: the frame of run_backtest with the two comparisons of the
\* signal made against 0
BacktestFrame(sp, sw, tenor, rfor) ==
    Frame(sp, sw, Zero, BtStopLoss, BtSpread, tenor, RDom, rfor, Notional)

\* backtest(pair) when theoretical_forward returns for every row
BacktestRun ==
    /\ prog = "backtest"
    /\ pc = "run"
    /\ ~BacktestRaises(spot, r_for, tenor_days)
    /\ LET frame == BacktestFrame(spot, swap_pts, tenor_days, r_for)
           tr == DropNa(frame)
       IN  /\ df' = frame
           /\ trades' = tr
           /\ report' = Metrics(tr)
    /\ pc' = "done"
    /\ UNCHANGED <<prog, spot, swap_pts, tenor_days, r_for, idx, results, settings, feed,
                   tick, history, fwd_history, data_rows, cip_in, cip_out,
                   cip_main, sim_in, sim_runs>>

\* backtest(pair) when theoretical_forward raises
BacktestRaise ==
    /\ prog = "backtest"
    /\ pc = "run"
    /\ BacktestRaises(spot, r_for, tenor_days)
    /\ pc' = "crashed"
    /\ UNCHANGED <<prog, spot, swap_pts, tenor_days, r_for, idx, results, report, settings,
                   feed, tick, history, fwd_history, data_rows, cip_in, cip_out,
                   cip_main, sim_in, sim_runs, df, trades>>

----------------------------------------------------------------------------
(* app.py: one run of the script per refresh *)

HistCap == 50

AppTenor == 30

AppNotional == 1000000

pairs == <<"EUR_USD", "GBP_USD">>

ProviderVals == {"Manual", "Swap-Points"}

ManualBpsVals == {R(-5), Zero, R(1), R(5)}

AppThresholdVals == {Q(1, 2), R(1)}

AppStopVals == {Zero, R(2)}

AppSpreadVals == {Zero, Q(1, 10)}

SettingsVals ==
    [provider : ProviderVals, manual_bps : ManualBpsVals, threshold_bps : AppThresholdVals,
     stop_loss_bps : AppStopVals, spread_bps : AppSpreadVals, tenor_days : {AppTenor}]

QuoteVals == [spot : {Q(2401, 2000), Q(2401, 2500)}, swap : {Zero, Q(3, 125)}]

FeedVals == UNION {[1..n -> QuoteVals] : n \in 1..2}

\* what fetch_spot / fetch_swap_point return for the k-th pair at refresh t
QuoteAt(fd, k, t) == fd[((t + k - 1) % Len(fd)) + 1]

\* format(x, ",.0f"): the nearest integer, halves to even
RoundHalfEven(x) ==
    LET fl == x[1] \div x[2]
        rem == x[1] - fl * x[2]
    IN  IF 2 * rem < x[2] THEN fl
        ELSE IF 2 * rem > x[2] THEN fl + 1
        ELSE IF fl % 2 = 0 THEN fl ELSE fl + 1

\* lines 135-140
DashSignal(dev, th) ==
    IF FGt(dev, th) THEN "Rich -> Sell forward"
    ELSE IF FLt(dev, FNeg(th)) THEN "Cheap -> Buy forward"
    ELSE "No arbitrage"

\* lines 143-148
DashPnl(obs, theo, spr, sl) ==
    LET cost == BpsAmount(spr, AppNotional)
        raw_pnl == FMul(FSub(obs, theo), R(AppNotional))
        pnl == FSub(raw_pnl, cost)
        stop_amt == BpsAmount(sl, AppNotional)
    IN  IF FLt(pnl, FNeg(stop_amt)) THEN FNeg(stop_amt) ELSE pnl

\* lines 108-158 for the k-th pair
DashRow(st, fd, k, t) ==
    LET q == QuoteAt(fd, k, t)
        spot_mid == q.spot
        theo == theoretical_forward(spot_mid, RDom, RForDefault, st.tenor_days).val
        obs == IF st.provider = "Manual"
               THEN FMul(theo, FAdd(One, FDiv(st.manual_bps, R(10000))))
               ELSE FAdd(spot_mid, FDiv(FMul(q.swap, R(st.tenor_days)), R(360)))
        dev == deviation_bps(obs, theo).val
        pnl == DashPnl(obs, theo, st.spread_bps, st.stop_loss_bps)
    IN  [Pair |-> pairs[k], spot_mid |-> spot_mid, obs_fwd |-> obs, theo_fwd |-> theo,
         dev_bps |-> dev, Signal |-> DashSignal(dev, st.threshold_bps), pnl |-> pnl,
         pnl_shown |-> RoundHalfEven(pnl)]

\* the append with the entry just appended dropped past the cap
PushCappedDropNewest(h, v) ==
    LET a == Append(h, v)
    IN  IF Len(a) > HistCap THEN SubSeq(a, 1, HistCap) ELSE a

\* lines 122-126 and 128-132: append, then drop the first entry past the cap
PushCapped(h, v) ==
    LET a == Append(h, v)
    IN  IF Len(a) > HistCap THEN Tail(a) ELSE a

\* lines 106-158: one run of the script
RefreshRun ==
    /\ prog = "app"
    /\ LET rows == [k \in 1..Len(pairs) |-> DashRow(settings, feed, k, tick)]
       IN  /\ data_rows' = rows
           /\ history' = [p \in DOMAIN history |->
                  LET k == CHOOSE j \in 1..Len(pairs) : pairs[j] = p
                  IN  PushCapped(history[p], rows[k].dev_bps)]
           /\ fwd_history' = [p \in DOMAIN fwd_history |->
                  LET k == CHOOSE j \in 1..Len(pairs) : pairs[j] = p
                  IN  PushCapped(fwd_history[p], rows[k].obs_fwd)]
    /\ tick' = tick + 1
    /\ UNCHANGED <<prog, spot, swap_pts, tenor_days, r_for, pc, idx, results, report,
                   settings, feed, cip_in, cip_out, cip_main, sim_in, sim_runs,
                   df, trades>>

\* a refresh of a session of at most MaxRefresh refreshes
Refresh == tick < MaxRefresh /\ RefreshRun

\* a refresh of a session of at most MaxSession refreshes
SessionRefresh == tick < MaxSession /\ RefreshRun

----------------------------------------------------------------------------
(* cip.py called on its own *)

CipSpotVals == {R(1), Q(2401, 2000)}

CipRForVals == {RForDefault, R(-12), R(-180)}

CipTenorVals == {1, 2, 30}

NoCall == [spot |-> Zero, r_dom |-> Zero, r_for |-> Zero, tenor_days |-> 0]

NoOutcome == [err |-> "none", val |-> Zero]

CipCall ==
    /\ prog = "cip"
    /\ \E s \in CipSpotVals, rf \in CipRForVals, t \in CipTenorVals :
          /\ cip_in' = [spot |-> s, r_dom |-> RDom, r_for |-> rf, tenor_days |-> t]
          /\ cip_out' = theoretical_forward(s, RDom, rf, t)
    /\ UNCHANGED <<prog, spot, swap_pts, tenor_days, r_for, pc, idx, results, report,
                   settings, feed, tick, history, fwd_history, data_rows, cip_main,
                   sim_in, sim_runs, df, trades>>

----------------------------------------------------------------------------
(* cip.py run as a script: the example of the __main__ block *)

ExampleSpot == Q(11691, 10000)        \* spot_rate = 1.16910

ExampleObserved == Q(11693, 10000)    \* observed_fwd = 1.16930

ExampleTenor == 30                    \* tenor_in_days = 30

\* f"{x:.<digits>f}": x rounded to that many decimals, as a count of units of
\* 10^-digits (1.171048 at 6 digits is 1171048)
FormatFixed(x, digits) ==
    LET whole == x[1] \div x[2]
        frac == Norm(x[1] - whole * x[2], x[2])
    IN  whole * 10^digits + RoundHalfEven(FMul(frac, R(10^digits)))

NoExample == [observed_fwd |-> Zero, dev |-> Zero, theo_text |-> 0, dev_text |-> 0]

\* lines 17-27
CipMain ==
    /\ prog = "cip"
    /\ LET theo == theoretical_forward(ExampleSpot, RDom, RForDefault, ExampleTenor)
           dev == deviation_bps(ExampleObserved, theo.val)
       IN  /\ cip_in' = [spot |-> ExampleSpot, r_dom |-> RDom, r_for |-> RForDefault,
                         tenor_days |-> ExampleTenor]
           /\ cip_out' = theo
           /\ cip_main' = [observed_fwd |-> ExampleObserved, dev |-> dev.val,
                           theo_text |-> FormatFixed(theo.val, 6),
                           dev_text |-> FormatFixed(dev.val, 2)]
    /\ UNCHANGED <<prog, spot, swap_pts, tenor_days, r_for, pc, idx, results, report,
                   settings, feed, tick, history, fwd_history, data_rows, sim_in,
                   sim_runs, df, trades>>

----------------------------------------------------------------------------
(* app.py: simulate_pnl called on its own *)

MaxSims == 1         \* most paths of a simulate_pnl call

MaxDays == 2         \* most days of a path

\* what random.uniform(-0.005, 0.005) may return: the module never seeds the
\* generator, so a draw is any value of the range; its two ends stand for it
ShockVals == {Q(-1, 200), Q(1, 200)}

SimSpotVals == {One}

SimFwdVals == {One, Q(201, 200)}

SimArgs == [spot0 : SimSpotVals, obs_fwd : SimFwdVals, days : 1..MaxDays, sims : 1..MaxSims]

NoSim == [spot0 |-> Zero, obs_fwd |-> Zero, days |-> 0, sims |-> 0]

\* lines 96-101: the path after its first d shocks
RECURSIVE PathAfter(_, _, _)
PathAfter(spot0, shocks, d) ==
    IF d = 0 THEN spot0
    ELSE FMul(PathAfter(spot0, shocks, d - 1), FAdd(One, shocks[d]))

\* simulate_pnl(spot0, obs_fwd, days, sims) when the draws of random.uniform
\* are draws[s][d] for day d of path s
simulate_pnl(spot0, obs_fwd, days, sims, draws) ==
    [s \in 1..sims |->
        [d \in 1..days |-> FMul(R(1000000), FSub(PathAfter(spot0, draws[s], d), obs_fwd))]]

\* one call; the generator has no seed among the arguments and is in whatever
\* state the interpreter and the earlier draws left it
SimulateCall ==
    /\ prog = "simulate"
    /\ Len(sim_runs) < 2
    /\ \E draws \in [1..sim_in.sims -> [1..sim_in.days -> ShockVals]] :
          sim_runs' = Append(sim_runs,
              simulate_pnl(sim_in.spot0, sim_in.obs_fwd, sim_in.days, sim_in.sims, draws))
    /\ UNCHANGED <<prog, spot, swap_pts, tenor_days, r_for, pc, idx, results, report,
                   settings, feed, tick, history, fwd_history, data_rows, cip_in, cip_out,
                   cip_main, sim_in, df, trades>>

----------------------------------------------------------------------------
(* The specification *)

IdleBacktest ==
    /\ spot = <<>>
    /\ swap_pts = <<>>
    /\ tenor_days = 1
    /\ r_for = RForDefault

IdleApp ==
    /\ settings = [provider |-> "Manual", manual_bps |-> Zero, threshold_bps |-> R(1),
                   stop_loss_bps |-> R(2), spread_bps |-> Q(1, 10), tenor_days |-> AppTenor]
    /\ feed = <<[spot |-> Q(2401, 2000), swap |-> Zero]>>

Init ==
    /\ prog \in {"optimize", "backtest", "app", "cip", "simulate"}
    /\ pc = "run"
    /\ idx = 1
    /\ results = <<>>
    /\ report = NoReport
    /\ df = NoFrame
    /\ trades = NoFrame
    /\ tick = 0
    /\ history = [p \in {pairs[k] : k \in 1..Len(pairs)} |-> <<>>]
    /\ fwd_history = [p \in {pairs[k] : k \in 1..Len(pairs)} |-> <<>>]
    /\ data_rows = <<>>
    /\ cip_in = NoCall
    /\ cip_out = NoOutcome
    /\ cip_main = NoExample
    /\ sim_runs = <<>>
    /\ IF prog = "simulate" THEN sim_in \in SimArgs ELSE sim_in = NoSim
    /\ IF prog \in {"optimize", "backtest"}
       THEN /\ tenor_days \in 1..MaxTenor
            /\ spot \in SpotSeries(tenor_days)
            /\ swap_pts \in SwapSeries(Len(spot))
            /\ r_for \in RForVals(tenor_days)
       ELSE IdleBacktest
    /\ IF prog = "app"
       THEN /\ settings \in SettingsVals
            /\ feed \in FeedVals
       ELSE IdleApp

Next ==
    \/ SweepStep
    \/ SweepRaise
    \/ SweepFinish
    \/ BacktestRun
    \/ BacktestRaise
    \/ Refresh
    \/ CipCall
    \/ CipMain
    \/ SimulateCall

Spec == Init /\ [][Next]_vars

\* the long dashboard sessions: the sidebar values that enter the histories
\* vary, the others are the defaults
SessionSettings ==
    {st \in SettingsVals : /\ st.manual_bps \in {Zero, R(5)}
                           /\ st.threshold_bps = R(1)
                           /\ st.stop_loss_bps = R(2)
                           /\ st.spread_bps = Q(1, 10)}

InitSession == Init /\ prog = "app" /\ settings \in SessionSettings

NextSession == SessionRefresh

SpecSession == InitSession /\ [][NextSession]_vars

----------------------------------------------------------------------------
(* Properties *)

\* a backtest has run and df, trades hold its frame
HasFrame ==
    \/ prog = "optimize" /\ Len(results) > 0
    \/ prog = "backtest" /\ pc = "done"

\* the threshold, stop-loss and spread of the backtest that df belongs to
LastThreshold == IF prog = "optimize" THEN results[Len(results)].threshold_bps ELSE Zero

LastStopLoss == IF prog = "optimize" THEN results[Len(results)].stop_loss_bps ELSE BtStopLoss

LastSpread == IF prog = "optimize" THEN results[Len(results)].spread_bps ELSE BtSpread

\* the metrics of the backtest that df belongs to
LastMetrics == IF prog = "optimize" THEN results[Len(results)] ELSE report

Rows(frame) == {frame[i] : i \in 1..Len(frame)}

DashRows == {data_rows[k] : k \in 1..Len(data_rows)}

\* bps / 10000 * notional, as an amount
Amount(bps) == FDiv(FMul(bps, R(Notional)), R(10000))

\* C1: the signal of every row of a backtest is -1 exactly when its deviation
\* is above the threshold, +1 exactly when it is below minus the threshold and 0
\* otherwise, a deviation equal to the threshold or to minus the threshold
\* giving 0; the dashboard's signal of every pair follows the same rule.
C1_ClassifierRule ==
    /\ HasFrame =>
         \A r \in Rows(df) :
            /\ (r.signal = -1) <=> FGt(r.dev_bps, LastThreshold)
            /\ (r.signal = 1) <=> FLt(r.dev_bps, FNeg(LastThreshold))
            /\ r.signal \in {-1, 0, 1}
            /\ (r.dev_bps = LastThreshold \/ r.dev_bps = FNeg(LastThreshold)) => r.signal = 0
    /\ \A d \in DashRows :
            /\ (d.Signal = "Rich -> Sell forward") <=> FGt(d.dev_bps, settings.threshold_bps)
            /\ (d.Signal = "Cheap -> Buy forward") <=> FLt(d.dev_bps, FNeg(settings.threshold_bps))
            /\ (d.Signal = "No arbitrage") <=>
                   (FLe(d.dev_bps, settings.threshold_bps)
                    /\ FLe(FNeg(settings.threshold_bps), d.dev_bps))

\* a backtest frame with a row whose deviation equals the positive threshold and
\* a row whose deviation equals minus the threshold, both without a trade
C1_Witness ==
    /\ HasFrame
    /\ FGt(LastThreshold, Zero)
    /\ \E r1, r2 \in Rows(df) :
          /\ r1.dev_bps = LastThreshold
          /\ r2.dev_bps = FNeg(LastThreshold)
          /\ r1.signal = 0
          /\ r2.signal = 0

\* C2: the PnL of every row of a backtest and of every pair of a dashboard
\* refresh is never below -stop_loss_bps / 10000 * notional.
C2_PnlFloor ==
    /\ HasFrame =>
         \A r \in Rows(df) : ~FLt(r.pnl, FNeg(Amount(LastStopLoss)))
    /\ \A d \in DashRows : ~FLt(d.pnl, FNeg(Amount(settings.stop_loss_bps)))

\* a traded backtest row whose net PnL was below the floor and sits on it
C2_Witness ==
    /\ HasFrame
    /\ \E r \in Rows(df) :
          /\ r.signal # 0
          /\ FLt(FSub(r.raw_pnl, Amount(LastSpread)), FNeg(Amount(LastStopLoss)))
          /\ r.pnl = FNeg(Amount(LastStopLoss))

\* the sign a dashboard signal stands for
DashSign(sig) ==
    IF sig = "Rich -> Sell forward" THEN -1
    ELSE IF sig = "Cheap -> Buy forward" THEN 1 ELSE 0

\* max(sign * (exit - obs) * notional - spread amount, -stop amount)
DirectionalPnl(sign, exit, obs, spr, sl) ==
    FMax(FSub(FMul(FMul(R(sign), FSub(exit, obs)), R(Notional)), Amount(spr)),
         FNeg(Amount(sl)))

\* C3: for a directional signal the step's PnL is
\* max(sign * (exit_reference - observed_fwd) * notional - spread amount,
\* -stop amount), in every aggregated row of a backtest (exit reference: the
\* exit spot) and in every dashboard row (exit reference: the theoretical
\* forward).
C3_DirectionalPnl ==
    /\ HasFrame =>
         \A r \in Rows(trades) :
            r.signal # 0 =>
               r.pnl = DirectionalPnl(r.signal, r.exit_spot, r.obs_fwd, LastSpread, LastStopLoss)
    /\ \A d \in DashRows :
            DashSign(d.Signal) # 0 =>
               d.pnl = DirectionalPnl(DashSign(d.Signal), d.theo_fwd, d.obs_fwd,
                                      settings.spread_bps, settings.stop_loss_bps)

\* C4: a step whose signal is NoAction has PnL exactly 0, in every aggregated
\* row of a backtest and in what the dashboard reports for a pair whose signal
\* is "No arbitrage".
C4_NoActionZero ==
    /\ HasFrame =>
         \A r \in Rows(trades) : r.signal = 0 => r.pnl = Zero
    /\ \A d \in DashRows :
            d.Signal = "No arbitrage" => (d.pnl = Zero /\ d.pnl_shown = 0)

\* every row's deviation lies within the threshold
AllWithinThreshold ==
    \A r \in Rows(df) :
        /\ FLe(r.dev_bps, LastThreshold)
        /\ FLe(FNeg(LastThreshold), r.dev_bps)

\* C5: a backtest over a series in which every row's deviation lies within the
\* threshold reports total_pnl = 0 and num_trades = 0.
C5_QuietSeries ==
    (HasFrame /\ AllWithinThreshold) =>
        (LastMetrics.total_pnl = Zero /\ LastMetrics.num_trades = 0)

\* a quiet series of three rows, two of them aggregated, under a positive
\* spread and a positive threshold that a deviation meets exactly
C5_Witness ==
    /\ HasFrame
    /\ AllWithinThreshold
    /\ Len(df) = 3
    /\ Len(trades) = 2
    /\ FGt(LastSpread, Zero)
    /\ FGt(LastThreshold, Zero)
    /\ \E r \in Rows(trades) : r.dev_bps = FNeg(LastThreshold)

\* the rows of the frame whose exit spot lies within the series
Complete(frame) == SelectSeq(frame, LAMBDA r : IndexOf(r.date) + tenor_days <= Len(spot))

\* C6: a row whose exit price is unavailable (one of the last tenor_days rows)
\* is not aggregated, whatever its signal: no such row is among the trades, and
\* total_pnl, num_trades, win_rate, avg_pnl and the length of the equity curve
\* are those of the remaining rows alone.
C6_IncompleteRowsExcluded ==
    HasFrame =>
        /\ \A r \in Rows(trades) : IndexOf(r.date) + tenor_days <= Len(spot)
        /\ Len(trades) <= Len(Complete(df))
        /\ LastMetrics.num_trades =
               Cardinality({i \in 1..Len(Complete(df)) :
                               /\ Complete(df)[i].signal # 0
                               /\ ~IsNaN(Complete(df)[i].pnl)})
        /\ LastMetrics.total_pnl =
               SumSeq(PnlOf(SelectSeq(Complete(df), LAMBDA r : ~IsNaN(r.pnl))))
        /\ LastMetrics.win_rate = WinRate(SelectSeq(Complete(df), LAMBDA r : ~IsNaN(r.pnl)))
        /\ LastMetrics.avg_pnl = AvgPnl(SelectSeq(Complete(df), LAMBDA r : ~IsNaN(r.pnl)))

\* a frame whose last row carries a directional signal and is left out, while
\* earlier rows are aggregated
C6_Witness ==
    /\ HasFrame
    /\ Len(df) >= 2
    /\ df[Len(df)].signal # 0
    /\ IsNaN(df[Len(df)].exit_spot)
    /\ Len(trades) >= 1
    /\ LastMetrics.num_trades >= 1

\* the aggregated rows with a directional signal
Directional(tr) == {i \in 1..Len(tr) : tr[i].signal # 0}

\* C7: the win rate is the share, in percent, of the directional aggregated
\* rows whose PnL is > 0, and 0 when there is none; rows without a trade do not
\* enter it.
C7_WinRate ==
    HasFrame =>
        LastMetrics.win_rate =
            IF Directional(trades) = {} THEN Zero
            ELSE FMul(Q(Cardinality({i \in Directional(trades) : FGt(trades[i].pnl, Zero)}),
                        Cardinality(Directional(trades))), R(100))

\* cumulative PnL after the first i aggregated rows
EquityAt(i) == SumSeq(PnlOf(SubSeq(trades, 1, i)))

\* the drops from an earlier or current cumulative PnL to the current one
Drops == {FSub(EquityAt(j), EquityAt(i)) : <<j, i>> \in {p \in (1..Len(trades)) \X (1..Len(trades)) : p[1] <= p[2]}}

\* C8: the max drawdown is the largest drop from the highest cumulative PnL
\* reached up to a row to the cumulative PnL at that row, over the aggregated
\* rows in date order; it is 0 when no row is aggregated and never negative.
C8_MaxDrawdown ==
    HasFrame =>
        /\ ~FLt(LastMetrics.max_drawdown, Zero)
        /\ trades = <<>> => LastMetrics.max_drawdown = Zero
        /\ trades # <<>> =>
              /\ LastMetrics.max_drawdown \in Drops
              /\ \A x \in Drops : FLe(x, LastMetrics.max_drawdown)

\* two aggregated rows, the first a loss, the second a further loss: the drop
\* is measured from the cumulative PnL after the first row, not from 0
C8_Witness ==
    /\ HasFrame
    /\ Len(trades) >= 2
    /\ FLt(trades[1].pnl, Zero)
    /\ FLt(trades[2].pnl, Zero)
    /\ LastMetrics.max_drawdown = FNeg(trades[2].pnl)

\* C9: in the sweep an error in one parameter combination ends only that
\* combination: the script does not end on it, and when it ends there is a
\* result row for every combination whose backtest did not raise.
C9_SweepSurvivesErrors ==
    prog = "optimize" =>
        /\ pc # "crashed"
        /\ pc = "done" =>
              \A k \in 1..Len(Grid) :
                  \/ BacktestRaises(spot, r_for, tenor_days)
                  \/ \E j \in 1..Len(results) :
                        /\ results[j].threshold_bps = Grid[k].th
                        /\ results[j].stop_loss_bps = Grid[k].sl
                        /\ results[j].spread_bps = Grid[k].sp

\* C10: theoretical_forward called with 1 + r_for * tenor_days / 360 = 0 ends
\* in an InvalidRateError and returns no value.
C10_InvalidRateError ==
    (prog = "cip" /\ cip_in # NoCall
        /\ ForwardDivisor(cip_in.r_for, cip_in.tenor_days) = Zero) =>
        (cip_out.err = "InvalidRateError" /\ IsNaN(cip_out.val))

\* C11: two runs of the path simulator given the same seed and the same
\* (spot0, observed_forward, days, num_sims) return identical PnL matrices.
\* simulate_pnl takes no seed, so the arguments of the two calls are all a
\* caller can fix.
C11_SimulatorDeterminism ==
    (prog = "simulate" /\ Len(sim_runs) = 2) => sim_runs[1] = sim_runs[2]

\* the example of cip.py has run
ExampleRan == prog = "cip" /\ cip_main # NoExample

\* C12 as stated: for spot 1.16910, rates 0.025 and 0.005 and tenor 30 the
\* theoretical forward is 1.170047 to six decimals, the deviation of the
\* observed forward 1.16930 is -4.29 bps to two decimals, and the classifier
\* with threshold 1.0 says Buy (+1).
C12_ScenarioAsStated ==
    ExampleRan =>
        /\ cip_main.theo_text = 1170047
        /\ cip_main.dev_text = -429
        /\ SignalOf(cip_main.dev, R(1)) = 1

\* C12, amended: for spot 1.16910, rates 0.025 and 0.005 and tenor 30 the
\* theoretical forward is 1.171048 to six decimals, the deviation of the
\* observed forward 1.16930 is -14.92 bps to two decimals, and the classifier
\* with threshold 1.0 says Buy (+1).
C12_Scenario ==
    ExampleRan =>
        /\ cip_main.theo_text = 1171048
        /\ cip_main.dev_text = -1492
        /\ SignalOf(cip_main.dev, R(1)) = 1

\* the example has run and its deviation is the one of the forward it printed
C12_Witness ==
    /\ ExampleRan
    /\ cip_in = [spot |-> ExampleSpot, r_dom |-> RDom, r_for |-> RForDefault,
                 tenor_days |-> ExampleTenor]
    /\ cip_out.err = "none"
    /\ cip_main.dev = deviation_bps(cip_main.observed_fwd, cip_out.val).val
    /\ FLt(cip_main.dev, R(-1))

\* the days before a date for which the swap series has a value
KnownBefore(date) == {d \in DOMAIN swap_pts : d < date}

\* the value of the latest of them
LastKnown(date) ==
    swap_pts[CHOOSE d \in KnownBefore(date) : \A e \in KnownBefore(date) : e <= d]

\* C13: a row of the backtest whose date has a swap-points value uses that
\* value; a row whose date has none uses the most recent earlier value of the
\* swap series; and no row uses a later value: with no earlier value the row
\* has none.
C13_ForwardFill ==
    HasFrame =>
        \A r \in Rows(df) :
            IF r.date \in DOMAIN swap_pts THEN r.swap_pts = swap_pts[r.date]
            ELSE IF KnownBefore(r.date) # {} THEN r.swap_pts = LastKnown(r.date)
            ELSE IsNaN(r.swap_pts)

\* the position of a pair in the list of pairs
PairIndex(p) == CHOOSE k \in 1..Len(pairs) : pairs[k] = p

\* the rows computed for a pair by the refreshes so far, in arrival order
Arrived(p) == [t \in 1..tick |-> DashRow(settings, feed, PairIndex(p), t - 1)]

\* the last n entries of a sequence
LastN(s, n) == SubSeq(s, Len(s) - n + 1, Len(s))

SessionLen == IF tick < HistCap THEN tick ELSE HistCap

\* C14: after any number of refreshes each pair's deviation history and
\* observed-forward history hold at most 50 entries, and each is the most
\* recent min(n, 50) of the n values that arrived, in arrival order (so a
\* refresh that appends to a full history evicts exactly its oldest entry).
C14_HistoryCap ==
    prog = "app" =>
        \A p \in DOMAIN history :
            LET rows == Arrived(p)
            IN  /\ Len(history[p]) <= HistCap
                /\ Len(fwd_history[p]) <= HistCap
                /\ history[p] = LastN([t \in 1..tick |-> rows[t].dev_bps], SessionLen)
                /\ fwd_history[p] = LastN([t \in 1..tick |-> rows[t].obs_fwd], SessionLen)

\* more than 50 refreshes have run, a history is full, and the value evicted
\* first differs from the one that followed it
C14_Witness ==
    /\ prog = "app"
    /\ tick > HistCap
    /\ \E p \in DOMAIN history :
          /\ Len(history[p]) = HistCap
          /\ Arrived(p)[1].dev_bps # Arrived(p)[2].dev_bps
          /\ history[p][1] = Arrived(p)[tick - HistCap + 1].dev_bps
          /\ history[p][HistCap] = data_rows[PairIndex(p)].dev_bps

====
